---- MODULE Spec2Model ----
(***************************************************************************)
(* State-machine model of the TMNT bag-of-words topic-model trainer:       *)
(*   - HyperSphericalDistribution (tmnt/distribution.py): the pool of      *)
(*     rejection-sampled weights, post_init and the forward pass;          *)
(*   - BowNTMInference.encode_csr (tmnt/bow_vae/runtime.py);               *)
(*   - BowVAEWorker, select_model, write_model and train_bow_vae           *)
(*     (tmnt/bow_runner.py).                                               *)
(* Real numbers are fixed-point integers in thousandths unless noted.      *)
(***************************************************************************)
EXTENDS Integers, Sequences, FiniteSets, TLC

VARIABLES
    \* ---- HyperSphericalDistribution ----
    d_pc,              \* "new" | "pregenerate" | "constructed"
    kappa,             \* self.kappa
    n_latent,          \* self.n_latent
    kld_const,         \* the 'kld_const' parameter
    mask,              \* _pregenerate_samples: mask[i] = 1 while slot i is unresolved
    w_f,               \* _pregenerate_samples: the weights being collected
    u_f,               \* for each slot, the u drawn together with the w now in w_f
    w_samples,         \* self.w_samples
    vmf_samples,       \* the 'vmf_samples' parameter
    been_initialized,  \* self.been_initialized
    fwd,               \* outcome of the latest hybrid_forward call
    \* ---- the latent distributions' hybrid_forward ----
    latent,            \* the instance: its class, mu_encoder and lv_encoder
    lat_out,           \* what the latest hybrid_forward computed
    \* ---- BowNTMInference.encode_csr ----
    e_pc,              \* "idle" | "iter" | "done"
    csr,               \* the input matrix, a sequence of rows
    use_probs,
    batch_size,
    last_batch_size,
    infer_iter,        \* rows the NDArrayIter still has to yield
    encodings,
    \* ---- BowVAEWorker and the process around it (train_bow_vae) ----
    c_args,            \* the parsed arguments the worker keeps
    emb_size,          \* self.emb_size, 0 for None
    total_tst_words,   \* self.total_tst_words
    mode,              \* "direct" | "model_select" | "config_instance"
    main_pc,           \* position in train_bow_vae
    id2config,         \* the configuration objects, by configuration id
    loaded_config,     \* the configuration read from args.config_instance
    runs,              \* the runs the optimizer has recorded
    results_written,   \* results.pkl has been written
    incumbent,         \* res.get_incumbent_id(), 0 before
    inc_budget,        \* inc_run.budget
    retrains,          \* the retrain_best_config calls of this process
    specs_file,        \* model.specs, {} while absent
    params_file,       \* model.params: what the saved model was trained with
    origin,            \* model.params as it was when the record was read
    \* ---- evaluate over the worker's held-out data ----
    v_pc,              \* "idle" | "loop" | "done"
    data_test_csr,     \* self.data_test_csr, a sequence of rows (words per document)
    test_batch_size,   \* c_args.batch_size as given to the test NDArrayIter
    cursor,            \* rows self.test_dataloader has yielded in this pass
    total_rec_loss,
    summed,            \* the documents whose rec_loss is in total_rec_loss
    perplexity_out,    \* what the latest call of evaluate returned
    \* ---- what outlives a call of _train_model ----
    rng,               \* state of the process's random generators (seed_rng)
    trace,             \* the lines of args.trace_file after the header
    \* ---- one call of BowVAEWorker._train_model ----
    t_pc,              \* "idle" | "epochs" | "returned" | "raised"
    t_caller,          \* "compute" | "retrain"
    t_ref,             \* which configuration object was passed, 0 = loaded_config
    budget,            \* in thirds of an epoch
    hp,                \* the hyperparameters read from the configuration
    l1_coef,
    model,
    epoch,             \* number of passes of the epoch loop made so far
    epoch_loss,        \* epoch_loss / tr_size of the latest epoch
    ratio_small_weights,
    n_evals,           \* calls of evaluate made by this trial
    perplexity,
    npmi,
    nan_seen,          \* a minibatch of this trial produced a NaN/Inf loss
    res,
    error,
    events             \* the phases this call went through, in order

distVars == <<d_pc, kappa, n_latent, kld_const, mask, w_f, u_f, w_samples, vmf_samples, been_initialized, fwd>>
encVars == <<e_pc, csr, use_probs, batch_size, last_batch_size, infer_iter, encodings>>
procVars == <<c_args, emb_size, total_tst_words, mode, main_pc, id2config, loaded_config, runs, results_written,
              incumbent, inc_budget, retrains, specs_file, params_file, origin>>
trialVars == <<t_pc, t_caller, t_ref, budget, hp, l1_coef, model, epoch, epoch_loss,
               ratio_small_weights, n_evals, perplexity, npmi, nan_seen, res, error, events>>
envVars == <<rng, trace>>
evalVars == <<v_pc, data_test_csr, test_batch_size, cursor, total_rec_loss, summed, perplexity_out>>
latVars == <<latent, lat_out>>
vars == <<distVars, encVars, procVars, envVars, trialVars, evalVars, latVars>>

Min(a, b) == IF a < b THEN a ELSE b

(***************************************************************************)
(* HyperSphericalDistribution                                              *)
(***************************************************************************)

\* num_samples, the size of the pool (100000 in the source).
NumSamples == 2
Slots == 1 .. NumSamples

\* Largest batch size of a forward call.
MaxBatch == 2

\* Proposals z (after the clip to [1e-6, 1 - 1e-6]) and uniforms u, in thousandths.
ZVals == {100, 900}
UVals == {100, 900}

\* The constructor arguments kappa and n_latent an instance is built with.
Kappas == {10, 100}
NLatents == {3, 5}

\* w = (1 - (1 + b) z) / (1 - (1 - b) z) with dim = n - 1 and
\* b = dim / (sqrt(4 k^2 + dim^2) + 2 k), in ten-thousandths.
WOf(k, n, z) ==
    CASE k = 10 /\ n = 3 -> (CASE z = 100 -> 9890 [] z = 900 -> 3804)
      [] k = 10 /\ n = 5 -> (CASE z = 100 -> 9782 [] z = 900 -> 575)
      [] k = 100 /\ n = 3 -> (CASE z = 100 -> 9989 [] z = 900 -> 9139)
      [] k = 100 /\ n = 5 -> (CASE z = 100 -> 9978 [] z = 900 -> 8349)

\* kappa * w + dim * log(1 - x * w) - c with x = (1 - b) / (1 + b) and
\* c = kappa * x + dim * log(1 - x^2), in thousandths.
AcceptLhs(k, n, w) ==
    CASE k = 10 /\ n = 3 -> (CASE w = 9890 -> -249 [] w = 3804 -> -2671 [] OTHER -> 0)
      [] k = 10 /\ n = 5 -> (CASE w = 9782 -> -433 [] w = 575 -> -3356 [] OTHER -> 0)
      [] k = 100 /\ n = 3 -> (CASE w = 9989 -> -283 [] w = 9139 -> -4476 [] OTHER -> 0)
      [] k = 100 /\ n = 5 -> (CASE w = 9978 -> -558 [] w = 8349 -> -8399 [] OTHER -> 0)

\* log(u), in thousandths.
LogOf(u) == CASE u = 100 -> -2303 [] u = 900 -> -105

\* accept = kappa * w + dim * log(1. - x * w) - c >= log(u)
Accept(k, n, w, u) == AcceptLhs(k, n, w) >= LogOf(u)

\* mask = where(accept, zeros, mask) (and the same with a rejected slot marked
\* unresolved again).
MaskAfterMut(accept, m) == [i \in Slots |-> IF accept[i] THEN 0 ELSE 1]
MaskAfter(accept, m) == [i \in Slots |-> IF accept[i] THEN 0 ELSE m[i]]

\* w_f = where(mask, w_f, w): the old entry where mask is non-zero, else w.
StoreWeights(m, old, w) == [i \in Slots |-> IF m[i] # 0 THEN old[i] ELSE w[i]]

\* _vmf_kld(k, d), in thousandths.
VmfKld(k, d) ==
    CASE k = 10 /\ d = 3 -> 2416 [] k = 10 /\ d = 5 -> 2536
      [] k = 100 /\ d = 3 -> 6825 [] k = 100 /\ d = 5 -> 8861

\* self.kld_v
KldV == VmfKld(kappa, n_latent)

\* kld_const.expand(batch_size) (and the same reading the pool parameter, which
\* is created from the same constant).
ExpandMut(const, bs) == [i \in 1 .. bs |-> vmf_samples[1]]
Expand(const, bs) == [i \in 1 .. bs |-> const]

\* __init__ up to the entry of _pregenerate_samples: mask = ones, w_f = zeros.
DistConstruct ==
    /\ d_pc = "new"
    /\ d_pc' = "pregenerate"
    /\ \E k \in Kappas, n \in NLatents : kappa' = k /\ n_latent' = n
    /\ UNCHANGED kld_const
    /\ mask' = [i \in Slots |-> 1]
    /\ w_f' = [i \in Slots |-> 0]
    /\ u_f' = [i \in Slots |-> 0]
    /\ UNCHANGED <<w_samples, vmf_samples, been_initialized, fwd>>

\* One pass of the body of `while sum(mask) > 0`.
PregenerateRound ==
    /\ d_pc = "pregenerate"
    /\ \E i \in Slots : mask[i] > 0
    /\ \E z \in [Slots -> ZVals], u \in [Slots -> UVals] :
         LET w == [i \in Slots |-> WOf(kappa, n_latent, z[i])]
             accept == [i \in Slots |-> Accept(kappa, n_latent, w[i], u[i])]
             m == MaskAfter(accept, mask)
         IN /\ mask' = m
            /\ w_f' = StoreWeights(m, w_f, w)
            /\ u_f' = StoreWeights(m, u_f, u)
    /\ UNCHANGED <<d_pc, kappa, n_latent, kld_const, w_samples, vmf_samples, been_initialized, fwd>>

\* The loop exits, _pregenerate_samples returns w_f and __init__ finishes:
\* kld_const is created from kld_v, vmf_samples is created filled with kld_v,
\* been_initialized = False.
PregenerateReturn ==
    /\ d_pc = "pregenerate"
    /\ \A i \in Slots : mask[i] = 0
    /\ d_pc' = "constructed"
    /\ w_samples' = w_f
    /\ vmf_samples' = [i \in Slots |-> KldV]
    /\ kld_const' = KldV
    /\ been_initialized' = FALSE
    /\ UNCHANGED <<kappa, n_latent, mask, w_f, u_f, fwd>>

\* post_init
PostInit ==
    /\ d_pc = "constructed"
    /\ vmf_samples' = w_samples
    /\ been_initialized' = TRUE
    /\ UNCHANGED <<d_pc, kappa, n_latent, kld_const, mask, w_f, u_f, w_samples, fwd>>

\* The check at the head of hybrid_forward (and the same with the check left out).
ForwardRaisesMut(initialized) == FALSE
ForwardRaises(initialized) == ~initialized

\* F.take(vmf_samples, to_select) (and the same returning the constant the
\* parameter was created with).
TakeWeightsMut(samples, to_select) == [i \in DOMAIN to_select |-> KldV]
TakeWeights(samples, to_select) == [i \in DOMAIN to_select |-> samples[to_select[i]]]

\* hybrid_forward with _get_weight_from_cache: the precondition check, then
\* kld_const expanded to the batch and one pool entry per example.
HybridForward(bs) ==
    /\ d_pc = "constructed"
    /\ IF ForwardRaises(been_initialized)
       THEN fwd' = [status |-> "precondition_error", initialized |-> been_initialized,
                    index |-> <<>>, weights |-> <<>>, kld |-> <<>>]
       ELSE \E to_select \in [1 .. bs -> Slots] :
              fwd' = [status |-> "ok", initialized |-> been_initialized,
                      index |-> to_select,
                      weights |-> TakeWeights(vmf_samples, to_select),
                      kld |-> Expand(kld_const, bs)]
    /\ UNCHANGED <<d_pc, kappa, n_latent, kld_const, mask, w_f, u_f, w_samples, vmf_samples, been_initialized>>

DistIdle ==
    /\ d_pc = "new"
    /\ kappa = 0
    /\ n_latent = 0
    /\ kld_const = 0
    /\ mask = [i \in Slots |-> 1]
    /\ w_f = [i \in Slots |-> 0]
    /\ u_f = [i \in Slots |-> 0]
    /\ w_samples = [i \in Slots |-> 0]
    /\ vmf_samples = [i \in Slots |-> 0]
    /\ been_initialized = FALSE
    /\ fwd = [status |-> "none", initialized |-> FALSE, index |-> <<>>, weights |-> <<>>,
              kld |-> <<>>]

(***************************************************************************)
(* hybrid_forward of the four latent distributions                         *)
(***************************************************************************)

\* The classes of __all__; those with a projected log-variance.
Variants == {"Gaussian", "GaussianUnitVar", "LogisticGaussian", "HyperSpherical"}
WithLogVar == {"Gaussian", "LogisticGaussian"}

\* Encoder outputs of one row, in thousandths (enc_size = n_latent = 1), and
\* the batches handed to hybrid_forward.
DataVals == {-2000, 0, 1000, 3000}
Batches == UNION {[1 .. n -> DataVals] : n \in 1 .. MaxBatch}

\* Weight and bias of a Linear layer; no layer.
LinearParams == {[w |-> 2, b |-> 500], [w |-> -1, b |-> 0]}
LvParams == [w |-> 1, b |-> -500]
NoLayer == [w |-> 0, b |-> 0]

\* nn.Linear(enc_size, n_latent) applied to a batch.
Linear(layer, data) == [i \in DOMAIN data |-> layer.w * data[i] + layer.b]

\* epsilon of mu_bn and of lv_bn, in millionths.
MuEps == 100
LvEps == 1000

RECURSIVE SumSeq(_)
SumSeq(xs) == IF xs = <<>> THEN 0 ELSE xs[Len(xs)] + SumSeq(SubSeq(xs, 1, Len(xs) - 1))

\* The integer square root, by bisection on lo .. hi (46340 is the largest
\* root of a 32-bit integer).
RECURSIVE IsqrtIn(_, _, _)
IsqrtIn(x, lo, hi) ==
    IF lo >= hi THEN lo
    ELSE LET mid == (lo + hi + 1) \div 2
         IN IF mid * mid <= x THEN IsqrtIn(x, mid, hi) ELSE IsqrtIn(x, lo, mid - 1)
Isqrt(x) == IsqrtIn(x, 0, Min(x, 46340))

\* nn.BatchNorm in training: each value minus the batch mean, over the
\* square root of the batch variance plus epsilon (scale 1, shift 0).
BatchNorm(xs, eps) ==
    LET n == Len(xs)
        mean == SumSeq(xs) \div n
        var == SumSeq([i \in DOMAIN xs |-> (xs[i] - mean) * (xs[i] - mean)]) \div n
        sd == Isqrt(var + eps)
    IN [i \in DOMAIN xs |-> ((xs[i] - mean) * 1000) \div sd]

\* self.log_variance of GaussianUnitVarDistribution, log(1.0), per row.
LogVariance(data) == [i \in DOMAIN data |-> 0]

\* The arguments one use (drawing the sample, forming the KL term) is given;
\* <<>> where the use takes no such argument.
Args(mu, lv) == [mu |-> mu, lv |-> lv]

ForwardOut(data, mu, mu_bn, lv, lv_bn, sample_from, kl_from) ==
    [status |-> "ok", data |-> data, mu |-> mu, mu_bn |-> mu_bn, lv |-> lv, lv_bn |-> lv_bn,
     sample_from |-> sample_from, kl_from |-> kl_from]

\* GaussianDistribution.hybrid_forward.
GaussianForward(data) ==
    /\ latent.kind = "Gaussian"
    /\ LET mu == Linear(latent.mu_encoder, data)
           mu_bn == BatchNorm(mu, MuEps)
           lv == Linear(latent.lv_encoder, data)
           lv_bn == BatchNorm(lv, LvEps)
       IN lat_out' = ForwardOut(data, mu, mu_bn, lv, lv_bn, Args(mu_bn, lv_bn), Args(mu_bn, lv_bn))
    /\ UNCHANGED latent

\* GaussianUnitVarDistribution.hybrid_forward.
UnitVarForward(data) ==
    /\ latent.kind = "GaussianUnitVar"
    /\ LET mu == Linear(latent.mu_encoder, data)
           mu_bn == BatchNorm(mu, MuEps)
       IN lat_out' = ForwardOut(data, mu, mu_bn, <<>>, <<>>,
                                Args(mu_bn, LogVariance(data)), Args(mu_bn, <<>>))
    /\ UNCHANGED latent

\* LogisticGaussianDistribution.hybrid_forward.
LogisticGaussianForward(data) ==
    /\ latent.kind = "LogisticGaussian"
    /\ LET mu == Linear(latent.mu_encoder, data)
           mu_bn == BatchNorm(mu, MuEps)
           lv == Linear(latent.lv_encoder, data)
           lv_bn == BatchNorm(lv, LvEps)
       IN lat_out' = ForwardOut(data, mu, mu_bn, lv, lv_bn, Args(mu_bn, lv_bn), Args(mu, lv))
    /\ UNCHANGED latent

\* HyperSphericalDistribution.hybrid_forward, lines 204-207, for a call that
\* passed the test of line 202: the sample is built from mu_bn, the KL term
\* is kld_const. The pool side of the call is HybridForward.
HyperSphericalMeanForward(data) ==
    /\ latent.kind = "HyperSpherical"
    /\ LET mu == Linear(latent.mu_encoder, data)
           mu_bn == BatchNorm(mu, MuEps)
       IN lat_out' = ForwardOut(data, mu, mu_bn, <<>>, <<>>, Args(mu_bn, <<>>), Args(<<>>, <<>>))
    /\ UNCHANGED latent

NoOut ==
    [status |-> "none", data |-> <<>>, mu |-> <<>>, mu_bn |-> <<>>, lv |-> <<>>, lv_bn |-> <<>>,
     sample_from |-> Args(<<>>, <<>>), kl_from |-> Args(<<>>, <<>>)]

\* No instance is modelled value by value.
LatIdle ==
    /\ latent = [kind |-> "none", mu_encoder |-> NoLayer, lv_encoder |-> NoLayer]
    /\ lat_out = NoOut

\* An instance of one of the classes, after __init__.
LatConstructed ==
    /\ latent \in {[kind |-> k, mu_encoder |-> p,
                     lv_encoder |-> IF k \in WithLogVar THEN LvParams ELSE NoLayer] :
                        k \in Variants, p \in LinearParams}
    /\ lat_out = NoOut

(***************************************************************************)
(* BowNTMInference.encode_csr                                              *)
(***************************************************************************)

\* self.max_batch_size
max_batch_size == 2

\* Largest number of rows of an input matrix, and the row contents.
MaxRows == 5
RowVals == {1, 2}
Matrices == UNION {[1 .. n -> RowVals] : n \in 1 .. MaxRows}

\* model.encode_data on one row, then the optional softmax normalisation.
EncodeData(row, probs) == IF probs THEN <<"softmax", row>> ELSE <<"enc", row>>

\* Python's s[:stop]: a negative stop counts from the end, and -0 is 0.
SliceUntil(s, stop) ==
    IF stop < 0
    THEN (IF Len(s) + stop > 0 THEN SubSeq(s, 1, Len(s) + stop) ELSE <<>>)
    ELSE SubSeq(s, 1, Min(stop, Len(s)))

\* Python's s[start:] for a negative start.
SliceFrom(s, start) ==
    IF start < 0
    THEN (IF Len(s) + start > 0 THEN SubSeq(s, Len(s) + start + 1, Len(s)) ELSE s)
    ELSE SubSeq(s, start + 1, Len(s))

\* The data handed to NDArrayIter: csr[:-last_batch_size].
IterData(m, last) == SliceUntil(m, 0 - last)

\* Lines 68-71: batch sizes, the iterator over csr[:-last_batch_size].
EncodeCsr(m, probs) ==
    /\ e_pc = "idle"
    /\ csr' = m
    /\ use_probs' = probs
    /\ batch_size' = Min(Len(m), max_batch_size)
    /\ last_batch_size' = Len(m) % batch_size'
    /\ infer_iter' = IterData(m, last_batch_size')
    /\ encodings' = <<>>
    /\ e_pc' = "iter"

\* One pass of the loop over infer_iter (last_batch_handle='discard': only
\* full batches are yielded).
EncodeBatch ==
    /\ e_pc = "iter"
    /\ Len(infer_iter) >= batch_size
    /\ encodings' = encodings \o [i \in 1 .. batch_size |-> EncodeData(infer_iter[i], use_probs)]
    /\ infer_iter' = SubSeq(infer_iter, batch_size + 1, Len(infer_iter))
    /\ UNCHANGED <<e_pc, csr, use_probs, batch_size, last_batch_size>>

\* The iterator is exhausted: the explicit last batch, then return.
EncodeLast ==
    /\ e_pc = "iter"
    /\ Len(infer_iter) < batch_size
    /\ encodings' =
         IF last_batch_size > 0
         THEN LET data == SliceFrom(csr, 0 - last_batch_size)
              IN encodings \o [i \in 1 .. Len(data) |-> EncodeData(data[i], use_probs)]
         ELSE encodings
    /\ e_pc' = "done"
    /\ UNCHANGED <<csr, use_probs, batch_size, last_batch_size, infer_iter>>

\* The caller takes the result; the object is ready for the next call.
EncodeReset ==
    /\ e_pc = "done"
    /\ e_pc' = "idle"
    /\ csr' = <<>>
    /\ use_probs' = FALSE
    /\ batch_size' = 0
    /\ last_batch_size' = 0
    /\ infer_iter' = <<>>
    /\ encodings' = <<>>

EncIdle ==
    /\ e_pc = "idle"
    /\ csr = <<>>
    /\ use_probs = FALSE
    /\ batch_size = 0
    /\ last_batch_size = 0
    /\ infer_iter = <<>>
    /\ encodings = <<>>

(***************************************************************************)
(* BowVAEWorker._train_model, compute, retrain_best_config                 *)
(***************************************************************************)

\* The literal 1.0 of `1.0 - npmi`, which fixes the scale of the thousandths.
One == 1000

\* Budgets are kept in thirds of an epoch (the optimizer awards max_budget / 3
\* and max_budget); int(budget) truncates towards zero.
IntOf(b) == IF b >= 0 THEN b \div 3 ELSE 0 - ((0 - b) \div 3)
ToBudget(n) == 3 * n

\* Floats that may be NaN or not yet assigned.
Unbound == [bound |-> FALSE, nan |-> FALSE, v |-> 0]
NaN == [bound |-> TRUE, nan |-> TRUE, v |-> 0]
Num(x) == [bound |-> TRUE, nan |-> FALSE, v |-> x]

\* Mean training losses of an epoch, observed sparsity ratios (tenths),
\* held-out perplexities and coherences (thousandths).
LossVals == {Num(2500), NaN}
RatioVals == {2, 5, 8}
PplVals == {1200, 3400}

\* The random generators seed_rng seeds: a state that every draw advances.
\* The generators being deterministic, the weights of a model are summarised
\* by the state of the generators at their latest update (initialisation,
\* then per epoch the order of the shuffled training iterator and the latent
\* samples): two models of one configuration trained for the same number of
\* epochs agree exactly if they were driven by the same draws.
RngPeriod == 4
SeedRng(seed) == seed % RngPeriod
Advance(r) == (r + 1) % RngPeriod
InitWeights(r) == r
TrainStep(w, r) == r

\* compute_coherence: the coherence of the topics of a model.
CoherenceOf(w) == 100 + 100 * w

\* evaluate, line 51: math.exp(total_rec_loss / total_words). With a zero
\* word count the division raises ZeroDivisionError when total_rec_loss is
\* still the int 0 (no batch was yielded) and gives NaN when it is a numpy
\* float.
ZeroDivision == [bound |-> FALSE, nan |-> FALSE, v |-> -1]
Evaluate(total_words) ==
    IF total_words = 0 THEN {NaN, ZeroDivision} ELSE {Num(p) : p \in PplVals}

\* ---- evaluate, batch by batch ----

\* Largest number of held-out documents, and the largest c_args.batch_size.
MaxDocs == 4
MaxTestBatch == 3

\* Words per held-out document, and the held-out matrices.
DocWords == {1, 2}
TestMatrices == UNION {[1 .. n -> DocWords] : n \in 1 .. MaxDocs}

\* The total word count of a matrix: every document's words are counted.
RECURSIVE TotalWords(_)
TotalWords(m) == IF m = <<>> THEN 0 ELSE m[Len(m)] + TotalWords(SubSeq(m, 1, Len(m) - 1))

\* rec_loss of one document under the model, in thousandths: a document's
\* reconstruction loss grows with its words.
RecLoss(row) == 1500 * row

\* Line 50: rec_loss.sum() over the rows of one batch.
RECURSIVE BatchRecLoss(_, _, _)
BatchRecLoss(m, from, to) ==
    IF from > to THEN 0 ELSE RecLoss(m[from]) + BatchRecLoss(m, from + 1, to)

\* Line 113, last_batch_handle='discard': the iterator yields a batch only
\* while a full batch of rows is left.
HasNextBatch(n, c, bs) == c + bs <= n

\* Line 51: total_rec_loss / total_words, the exponent of the perplexity, in
\* thousandths (math.exp is increasing, so the exponent stands for it).
PerplexityOf(total, total_words) ==
    IF total_words = 0 THEN ZeroDivision ELSE Num(total \div total_words)

\* Lines 42-43: evaluate is called; iterating the loader resets the iterator.
EvaluateCall ==
    /\ v_pc \in {"idle", "done"}
    /\ v_pc' = "loop"
    /\ cursor' = 0
    /\ total_rec_loss' = 0
    /\ summed' = {}
    /\ perplexity_out' = Unbound
    /\ UNCHANGED <<data_test_csr, test_batch_size>>

\* Lines 44-50: one batch of the loop.
EvaluateBatch ==
    /\ v_pc = "loop"
    /\ HasNextBatch(Len(data_test_csr), cursor, test_batch_size)
    /\ LET last == Min(cursor + test_batch_size, Len(data_test_csr))
       IN /\ total_rec_loss' = total_rec_loss + BatchRecLoss(data_test_csr, cursor + 1, last)
          /\ summed' = summed \cup (cursor + 1 .. last)
          /\ cursor' = last
    /\ UNCHANGED <<v_pc, data_test_csr, test_batch_size, perplexity_out>>

\* Lines 51-53: the iterator is exhausted; the perplexity is returned.
EvaluateReturn ==
    /\ v_pc = "loop"
    /\ ~HasNextBatch(Len(data_test_csr), cursor, test_batch_size)
    /\ perplexity_out' = PerplexityOf(total_rec_loss, total_tst_words)
    /\ v_pc' = "done"
    /\ UNCHANGED <<data_test_csr, test_batch_size, cursor, total_rec_loss, summed>>

\* No held-out matrix is modelled row by row.
EvalIdle ==
    /\ v_pc = "idle"
    /\ data_test_csr = <<>>
    /\ test_batch_size = 0
    /\ cursor = 0
    /\ total_rec_loss = 0
    /\ summed = {}
    /\ perplexity_out = Unbound

\* Line 188: the checkpoint condition (and the same, one epoch late).
\* self.data_test_csr is not None holds in every worker: __init__ builds the
\* test iterator over it.
IsCheckpointMut(e, freq) == e % freq = 0
IsCheckpoint(e, freq) == (e + 1) % freq = 0

\* Lines 190-196: the trace file is opened 'a+' if epoch >= eval_freq else
\* 'w+', which truncates it; the line written carries the epoch and the
\* coherence (the perplexity column is left out). `by` records the call
\* that wrote the line.
TraceMode(e, freq) == IF e >= freq THEN "a+" ELSE "w+"
WriteTrace(old, by, e, freq, c) ==
    (IF TraceMode(e, freq) = "w+" THEN <<>> ELSE old)
        \o <<[by |-> by, epoch |-> e, npmi |-> c]>>

\* Python dictionaries are functions whose domain is the set of keys present.
Get(d, k, default) == IF k \in DOMAIN d THEN d[k] ELSE default
SetItem(d, k, v) == [x \in DOMAIN d \cup {k} |-> IF x = k THEN v ELSE d[x]]
DelItem(d, k) == [x \in DOMAIN d \ {k} |-> d[x]]
NoDict == [x \in {} |-> 0]

BaseConfig ==
    [lr |-> 1, latent_distribution |-> "vmf", optimizer |-> "adam",
     n_latent |-> 3, enc_hidden_dim |-> 100, embedding_size |-> 50]

\* The configuration object the trial was handed.
ConfigAt(ref) == IF ref = 0 THEN loaded_config ELSE id2config[ref]

\* Lines 119-124: the keys read with config[...]; embedding_size only when
\* the vocabulary carries no embedding.
RequiredKeys(emb) ==
    {"lr", "latent_distribution", "optimizer", "n_latent", "enc_hidden_dim"}
        \cup (IF emb = 0 THEN {"embedding_size"} ELSE {})

\* Lines 119-126: the values the trial takes from the configuration.
ReadConfig(config, emb) ==
    [lr |-> config["lr"],
     latent_distribution |-> config["latent_distribution"],
     optimizer |-> config["optimizer"],
     n_latent |-> config["n_latent"],
     enc_hidden_dim |-> config["enc_hidden_dim"],
     emb_size |-> IF emb # 0 THEN emb ELSE config["embedding_size"],
     target_sparsity |-> Get(config, "target_sparsity", 0),
     coherence_reg_penalty |-> Get(config, "coherence_regularizer_penalty", 0)]

\* The L1 coefficient is kept exactly, as mant * 2^(exp / 10) with mant in
\* thousandths; zero has exponent 0.
L1(mant) == [mant |-> mant, exp |-> 0]
L1Less(a, b) == a.mant = b.mant /\ a.mant > 0 /\ a.exp < b.exp

\* Line 128: l1_coef = c_args.init_sparsity_pen if target_sparsity > 0.0 else 0.0
\* (c_args read as the worker's arguments).
InitL1(target, args) == IF target > 0 THEN L1(args.init_sparsity_pen) ELSE L1(0)

\* Line 185: l1_coef * math.pow(2.0, target - ratio), target and ratio in tenths.
SparsityUpdate(l1, target, ratio) ==
    [mant |-> l1.mant, exp |-> IF l1.mant = 0 THEN 0 ELSE l1.exp + (target - ratio)]

\* Line 185: the target the update is computed from.
UpdateTarget(args, h) == args.target_sparsity

\* Lines 200-206: the result of a trial (and one whose objective mixes in the
\* perplexity).
TrialResultMut(coherence, ppl, train_loss) ==
    [loss |-> ppl.v - coherence,
     info |-> [test_perplexity |-> ppl, train_loss |-> train_loss]]
TrialResult(coherence, ppl, train_loss) ==
    [loss |-> One - coherence,
     info |-> [test_perplexity |-> ppl, train_loss |-> train_loss]]

NoModel == [constructed |-> FALSE, epochs_trained |-> 0, l1_pen_const |-> L1(0), w |-> 0]

\* The call a trace line or an event belongs to.
CallTag(caller, ref, b) == [caller |-> caller, ref |-> ref, budget |-> b]

TrialIdle ==
    /\ t_pc = "idle"
    /\ t_caller = "none"
    /\ t_ref = 0
    /\ budget = 0
    /\ hp = NoDict
    /\ l1_coef = L1(0)
    /\ model = NoModel
    /\ epoch = 0
    /\ epoch_loss = Unbound
    /\ ratio_small_weights = 0
    /\ n_evals = 0
    /\ perplexity = Unbound
    /\ npmi = 0
    /\ nan_seen = FALSE
    /\ res = NoDict
    /\ error = "none"
    /\ events = <<>>

\* _train_model, lines 117-145: read the configuration (a missing key raises
\* KeyError), set l1_coef, construct the model (its weights initialised from
\* the generators, found in state r) and the trainer.
TrainModelEntry(caller, ref, config, b, r) ==
    /\ t_caller' = caller
    /\ t_ref' = ref
    /\ budget' = b
    /\ epoch' = 0
    /\ epoch_loss' = Unbound
    /\ ratio_small_weights' = 0
    /\ n_evals' = 0
    /\ perplexity' = Unbound
    /\ npmi' = 0
    /\ nan_seen' = FALSE
    /\ res' = NoDict
    /\ events' = <<>>
    /\ UNCHANGED trace
    /\ IF RequiredKeys(emb_size) \subseteq DOMAIN config
       THEN /\ hp' = ReadConfig(config, emb_size)
            /\ l1_coef' = InitL1(hp'.target_sparsity, c_args)
            /\ model' = [constructed |-> TRUE, epochs_trained |-> 0,
                         l1_pen_const |-> l1_coef', w |-> InitWeights(r)]
            /\ rng' = Advance(r)
            /\ t_pc' = "epochs"
            /\ error' = "none"
       ELSE /\ hp' = NoDict
            /\ l1_coef' = L1(0)
            /\ model' = NoModel
            /\ rng' = r
            /\ t_pc' = "raised"
            /\ error' = "KeyError"

\* One pass of `for epoch in range(int(budget))`, lines 146-196: the
\* minibatches of the shared training iterator, the sparsity update, the
\* evaluation checkpoint with its trace line.
EpochIteration ==
    /\ t_pc = "epochs"
    /\ epoch < IntOf(budget)
    /\ \E loss \in LossVals :
         /\ epoch_loss' = loss
         /\ nan_seen' = (nan_seen \/ loss.nan)
    /\ IF hp.target_sparsity > 0
       THEN \E r \in RatioVals :
              /\ ratio_small_weights' = r
              /\ l1_coef' = SparsityUpdate(l1_coef, UpdateTarget(c_args, hp), r)
       ELSE UNCHANGED <<ratio_small_weights, l1_coef>>
    /\ model' = [model EXCEPT !.epochs_trained = @ + 1, !.l1_pen_const = l1_coef',
                              !.w = TrainStep(@, rng)]
    /\ rng' = Advance(rng)
    /\ IF IsCheckpoint(epoch, c_args.eval_freq)
       THEN /\ n_evals' = n_evals + 1
            /\ events' = events \o <<[kind |-> "epoch", e |-> epoch],
                                      [kind |-> "checkpoint", e |-> epoch]>>
            /\ \E out \in Evaluate(total_tst_words) :
                 IF out = ZeroDivision
                 THEN /\ t_pc' = "raised"
                      /\ error' = "ZeroDivisionError"
                      /\ UNCHANGED <<perplexity, npmi, trace>>
                 ELSE /\ perplexity' = out
                      /\ IF c_args.trace_file
                         THEN /\ npmi' = CoherenceOf(model'.w)
                              /\ trace' = WriteTrace(trace, CallTag(t_caller, t_ref, budget),
                                                     epoch, c_args.eval_freq, npmi')
                         ELSE UNCHANGED <<npmi, trace>>
                      /\ UNCHANGED <<t_pc, error>>
       ELSE /\ events' = Append(events, [kind |-> "epoch", e |-> epoch])
            /\ UNCHANGED <<n_evals, perplexity, npmi, trace, t_pc, error>>
    /\ epoch' = epoch + 1
    /\ UNCHANGED <<t_caller, t_ref, budget, hp, res>>

\* The loop is over, lines 197-207: the final evaluate and compute_coherence,
\* then the result; epoch_loss is unbound when the loop body never ran.
Finalize ==
    /\ t_pc = "epochs"
    /\ epoch >= IntOf(budget)
    /\ \E out \in Evaluate(total_tst_words) :
         IF out = ZeroDivision
         THEN /\ res' = NoDict
              /\ t_pc' = "raised"
              /\ error' = "ZeroDivisionError"
              /\ UNCHANGED <<perplexity, npmi>>
         ELSE /\ perplexity' = out
              /\ npmi' = CoherenceOf(model.w)
              /\ IF epoch_loss.bound
                 THEN /\ res' = TrialResult(npmi', out, epoch_loss)
                      /\ t_pc' = "returned"
                      /\ error' = "none"
                 ELSE /\ res' = NoDict
                      /\ t_pc' = "raised"
                      /\ error' = "UnboundLocalError"
    /\ n_evals' = n_evals + 1
    /\ events' = Append(events, [kind |-> "finalize", e |-> epoch])
    /\ rng' = Advance(rng)
    /\ UNCHANGED <<t_caller, t_ref, budget, hp, l1_coef, model, epoch, epoch_loss,
                   ratio_small_weights, nan_seen, trace>>

TrialReset ==
    /\ t_pc' = "idle"
    /\ t_caller' = "none"
    /\ t_ref' = 0
    /\ budget' = 0
    /\ hp' = NoDict
    /\ l1_coef' = L1(0)
    /\ model' = NoModel
    /\ epoch' = 0
    /\ epoch_loss' = Unbound
    /\ ratio_small_weights' = 0
    /\ n_evals' = 0
    /\ perplexity' = Unbound
    /\ npmi' = 0
    /\ nan_seen' = FALSE
    /\ res' = NoDict
    /\ error' = "none"
    /\ events' = <<>>

\* Largest budget, in epochs, of a directly submitted trial.
MaxBudget == 3
DirectBudgets == {ToBudget(k) : k \in -1 .. MaxBudget} \cup {ToBudget(MaxBudget) - 1}

\* compute(config, budget) called on the worker directly.
Compute(ref, b) ==
    /\ mode = "direct"
    /\ t_pc = "idle"
    /\ TrainModelEntry("compute", ref, id2config[ref], b, rng)
    /\ UNCHANGED procVars

\* compute returns res, or the exception leaves it.
ComputeReturn ==
    /\ mode = "direct"
    /\ t_pc \in {"returned", "raised"}
    /\ t_caller = "compute"
    /\ TrialReset
    /\ UNCHANGED <<procVars, envVars>>

(***************************************************************************)
(* train_bow_vae, select_model, write_model                                *)
(***************************************************************************)

\* select_model: BOHB(min_budget=2, max_budget=8), run(n_iterations=4).
min_budget == 2
max_budget == 8

\* The maximum number of training epochs the user asks the search for
\* (args.epochs, --budget of select_model.py), kept by the worker as
\* self.max_budget.
UserEpochs == {4, 8}
WorkerMaxBudget == c_args.epochs

\* The budgets successive halving awards between min_budget and max_budget:
\* max_budget / 3 and max_budget, in thirds.
SearchBudgets == {b \in {max_budget, ToBudget(max_budget)} : b >= ToBudget(min_budget)}

\* Most runs the optimizer makes in one search.
MaxRuns == 3

SampledConfigs == <<BaseConfig, [BaseConfig EXCEPT !.n_latent = 10]>>

\* The configurations a worker is called with directly: well-formed, with a
\* target sparsity, and two with a key missing.
TrialConfigs ==
    <<BaseConfig,
      SetItem(BaseConfig, "target_sparsity", 5),
      DelItem(BaseConfig, "lr"),
      DelItem(BaseConfig, "embedding_size")>>

\* json.dumps / json.loads of a dictionary: the text holds one key-value
\* member per key.
JsonDumps(d) == {<<k, d[k]>> : k \in DOMAIN d}
JsonLoads(text) == [k \in {m[1] : m \in text} |-> (CHOOSE m \in text : m[1] = k)[2]]

\* write_model, lines 240-242: what it stores into the configuration (and the
\* same with the epoch count off by one).
ConfigAfterWriteMut(config, b, emb) ==
    SetItem(IF emb # 0 THEN SetItem(config, "embedding_size", emb) ELSE config,
            "training_epochs", IntOf(b) + 1)
ConfigAfterWrite(config, b, emb) ==
    SetItem(IF emb # 0 THEN SetItem(config, "embedding_size", emb) ELSE config,
            "training_epochs", IntOf(b))

\* Result.get_incumbent_id: the least (loss, id) among the runs on max_budget.
RunsOnMax == {r \in runs : r.budget = ToBudget(max_budget)}
GetIncumbentId ==
    (CHOOSE r \in RunsOnMax :
        \A q \in RunsOnMax : r.loss < q.loss \/ (r.loss = q.loss /\ r.id <= q.id)).id

\* Result.get_runs_by_id: the budgets of the runs of a configuration, ascending.
RECURSIVE SortedSeq(_)
SortedSeq(S) ==
    IF S = {} THEN <<>>
    ELSE LET m == CHOOSE x \in S : \A y \in S : x <= y
         IN <<m>> \o SortedSeq(S \ {m})
GetRunsById(id) == SortedSeq({r.budget : r \in {q \in runs : q.id = id}})

\* Line 309: inc_run = inc_runs[-1] (and the same taking the first run).
IncRunMut(inc_runs) == inc_runs[1]
IncRun(inc_runs) == inc_runs[Len(inc_runs)]

\* The optimizer submits a configuration with a budget to the worker.
OptimizerSubmit(id, b) ==
    /\ mode = "model_select"
    /\ main_pc = "search"
    /\ t_pc = "idle"
    /\ Cardinality(runs) < MaxRuns
    /\ \A r \in runs : ~(r.id = id /\ r.budget = b)
    /\ TrainModelEntry("compute", id, id2config[id], b, rng)
    /\ UNCHANGED procVars

\* compute returns and the optimizer records the run.
OptimizerReceive ==
    /\ mode = "model_select"
    /\ main_pc = "search"
    /\ t_pc = "returned"
    /\ t_caller = "compute"
    /\ runs' = runs \cup {[id |-> t_ref, budget |-> budget, loss |-> res.loss]}
    /\ TrialReset
    /\ UNCHANGED <<c_args, emb_size, total_tst_words, mode, main_pc, id2config, loaded_config,
                   results_written, incumbent, inc_budget, retrains, specs_file, params_file,
                   origin>>
    /\ UNCHANGED envVars

\* bohb.run returns; train_bow_vae lines 301-315: the incumbent, its run on
\* the highest budget, results.pkl.
SearchDone ==
    /\ mode = "model_select"
    /\ main_pc = "search"
    /\ t_pc = "idle"
    /\ RunsOnMax # {}
    /\ incumbent' = GetIncumbentId
    /\ inc_budget' = IncRun(GetRunsById(incumbent'))
    /\ results_written' = TRUE
    /\ main_pc' = "selected"
    /\ UNCHANGED <<c_args, emb_size, total_tst_words, mode, id2config, loaded_config, runs,
                   retrains, specs_file, params_file, origin>>
    /\ UNCHANGED <<envVars, trialVars>>

\* Lines 316-317: if args.model_dir, retrain_best_config(inc_config, inc_run.budget).
RetrainIncumbent ==
    /\ mode = "model_select"
    /\ main_pc = "selected"
    /\ IF c_args.model_dir
       THEN /\ TrainModelEntry("retrain", incumbent, id2config[incumbent], inc_budget, rng)
            /\ retrains' = Append(retrains, [ref |-> incumbent, budget |-> inc_budget])
            /\ main_pc' = "retraining"
       ELSE /\ main_pc' = "finished"
            /\ UNCHANGED retrains
            /\ UNCHANGED <<envVars, trialVars>>
    /\ UNCHANGED <<c_args, emb_size, total_tst_words, mode, id2config, loaded_config, runs,
                   results_written, incumbent, inc_budget, specs_file, params_file, origin>>

\* _train_model has returned to retrain_best_config, which calls write_model:
\* with a model directory, the parameters are saved, the configuration
\* object gets embedding_size and training_epochs and is dumped to model.specs.
RetrainWrite ==
    /\ main_pc = "retraining"
    /\ t_pc = "returned"
    /\ t_caller = "retrain"
    /\ IF c_args.model_dir
       THEN LET written == ConfigAfterWrite(ConfigAt(t_ref), budget, emb_size)
            IN /\ params_file' = [epochs |-> model.epochs_trained, hp |-> hp]
               /\ IF t_ref = 0
                  THEN loaded_config' = written /\ UNCHANGED id2config
                  ELSE id2config' = [id2config EXCEPT ![t_ref] = written]
                       /\ UNCHANGED loaded_config
               /\ specs_file' = JsonDumps(written)
       ELSE UNCHANGED <<params_file, id2config, loaded_config, specs_file>>
    /\ main_pc' = "finished"
    /\ UNCHANGED <<c_args, emb_size, total_tst_words, mode, runs, results_written, incumbent,
                   inc_budget, retrains, origin>>
    /\ UNCHANGED <<envVars, trialVars>>

\* A later process started with args.config_instance naming the record
\* (lines 254, 318-323): the generators seeded anew, a new worker, the
\* configuration read back from the file,
\* retrain_best_config(config, int(config['training_epochs'])).
ConfigInstance(dir) ==
    /\ main_pc = "finished"
    /\ specs_file # {}
    /\ mode' = "config_instance"
    /\ c_args' = [c_args EXCEPT !.model_dir = dir]
    /\ loaded_config' = JsonLoads(specs_file)
    /\ origin' = params_file
    /\ runs' = {}
    /\ results_written' = FALSE
    /\ incumbent' = 0
    /\ inc_budget' = 0
    /\ id2config' = <<>>
    /\ main_pc' = "retraining"
    /\ retrains' = <<[ref |-> 0, budget |-> ToBudget(loaded_config'["training_epochs"])]>>
    /\ TrainModelEntry("retrain", 0, loaded_config',
                       ToBudget(loaded_config'["training_epochs"]), SeedRng(c_args.seed))
    /\ UNCHANGED <<emb_size, total_tst_words, specs_file, params_file>>

ProcIdle ==
    /\ runs = {}
    /\ results_written = FALSE
    /\ incumbent = 0
    /\ inc_budget = 0
    /\ retrains = <<>>
    /\ loaded_config = NoDict
    /\ specs_file = {}
    /\ params_file = [epochs |-> 0, hp |-> NoDict]
    /\ origin = [epochs |-> 0, hp |-> NoDict]

\* No worker: the state of the other components' specifications.
ProcNone ==
    /\ ProcIdle
    /\ mode = "none"
    /\ main_pc = "none"
    /\ id2config = <<>>
    /\ emb_size = 0
    /\ total_tst_words = 0
    /\ c_args = [model_dir |-> FALSE, init_sparsity_pen |-> 0, target_sparsity |-> 0,
                 eval_freq |-> 1, trace_file |-> FALSE, seed |-> 0, epochs |-> 0]

\* The default of --seed.
DefaultSeed == 1234

\* Total word counts of the held-out data: none (every row is empty) or some.
WordCounts == {0, 5000}

\* seed_rng(args.seed) at the start of train_bow_vae; no trace file yet.
EnvInit ==
    /\ rng = SeedRng(c_args.seed)
    /\ trace = <<>>

\* A worker constructed for direct calls of compute.
InitDirect ==
    /\ ProcIdle
    /\ mode = "direct"
    /\ main_pc = "none"
    /\ id2config = TrialConfigs
    /\ emb_size \in {0, 300}
    /\ total_tst_words \in WordCounts
    /\ c_args \in [model_dir : {FALSE}, init_sparsity_pen : {0, 1000},
                   target_sparsity : {0, 5}, eval_freq : {1, 2}, trace_file : {FALSE},
                   seed : {DefaultSeed}, epochs : {MaxBudget}]

\* train_bow_vae with args.model_select, at the call of select_model.
InitModelSelect ==
    /\ ProcIdle
    /\ mode = "model_select"
    /\ main_pc = "search"
    /\ id2config = SampledConfigs
    /\ emb_size \in {0, 300}
    /\ total_tst_words = 5000
    /\ c_args \in [model_dir : BOOLEAN, init_sparsity_pen : {0},
                   target_sparsity : {0}, eval_freq : {1}, trace_file : BOOLEAN,
                   seed : {DefaultSeed}, epochs : UserEpochs]

(***************************************************************************)
(* Specifications                                                          *)
(***************************************************************************)

Init == DistIdle /\ EncIdle /\ ProcNone /\ EnvInit /\ TrialIdle /\ EvalIdle /\ LatIdle

othersDist == <<encVars, procVars, envVars, trialVars, evalVars, latVars>>
othersEnc == <<distVars, procVars, envVars, trialVars, evalVars, latVars>>
othersProc == <<distVars, encVars, evalVars, latVars>>
othersEval == <<distVars, encVars, procVars, envVars, trialVars, latVars>>
othersLat == <<distVars, encVars, procVars, envVars, trialVars, evalVars>>

NextDist ==
    \/ DistConstruct /\ UNCHANGED othersDist
    \/ PregenerateRound /\ UNCHANGED othersDist
    \/ PregenerateReturn /\ UNCHANGED othersDist
    \/ PostInit /\ UNCHANGED othersDist
    \/ \E bs \in 1 .. MaxBatch : HybridForward(bs) /\ UNCHANGED othersDist

SpecDist == Init /\ [][NextDist]_vars

\* The same, for a constructor and callers that keep running: a step that is
\* possible is eventually taken. Nothing is assumed about what is drawn.
SpecDistFair == Init /\ [][NextDist]_vars /\ WF_vars(NextDist)

NextEncode ==
    \/ \E m \in Matrices, probs \in BOOLEAN : EncodeCsr(m, probs) /\ UNCHANGED othersEnc
    \/ EncodeBatch /\ UNCHANGED othersEnc
    \/ EncodeLast /\ UNCHANGED othersEnc
    \/ EncodeReset /\ UNCHANGED othersEnc

SpecEncode == Init /\ [][NextEncode]_vars

\* A worker whose compute is called directly, with any configuration and budget.
InitTrial == DistIdle /\ EncIdle /\ InitDirect /\ EnvInit /\ TrialIdle /\ EvalIdle /\ LatIdle

NextTrial ==
    \/ \E ref \in 1 .. Len(TrialConfigs), b \in DirectBudgets :
          Compute(ref, b) /\ UNCHANGED othersProc
    \/ EpochIteration /\ UNCHANGED <<othersProc, procVars>>
    \/ Finalize /\ UNCHANGED <<othersProc, procVars>>
    \/ ComputeReturn /\ UNCHANGED othersProc

SpecTrial == InitTrial /\ [][NextTrial]_vars

\* train_bow_vae in model selection, then later runs from the written record.
InitSearch == DistIdle /\ EncIdle /\ InitModelSelect /\ EnvInit /\ TrialIdle /\ EvalIdle /\ LatIdle

NextSearch ==
    \/ \E id \in 1 .. Len(SampledConfigs), b \in SearchBudgets :
          OptimizerSubmit(id, b) /\ UNCHANGED othersProc
    \/ EpochIteration /\ UNCHANGED <<othersProc, procVars>>
    \/ Finalize /\ UNCHANGED <<othersProc, procVars>>
    \/ OptimizerReceive /\ UNCHANGED othersProc
    \/ SearchDone /\ UNCHANGED othersProc
    \/ RetrainIncumbent /\ UNCHANGED othersProc
    \/ RetrainWrite /\ UNCHANGED othersProc
    \/ \E dir \in BOOLEAN : ConfigInstance(dir) /\ UNCHANGED othersProc

SpecSearch == InitSearch /\ [][NextSearch]_vars

\* A worker constructed over a held-out matrix: total_tst_words counts the
\* words of every row of the matrix, and the test iterator is built over it
\* with c_args.batch_size.
InitEvaluate ==
    /\ DistIdle /\ EncIdle /\ TrialIdle /\ LatIdle
    /\ ProcIdle
    /\ mode = "direct"
    /\ main_pc = "none"
    /\ id2config = TrialConfigs
    /\ emb_size = 0
    /\ c_args = [model_dir |-> FALSE, init_sparsity_pen |-> 0, target_sparsity |-> 0,
                 eval_freq |-> 1, trace_file |-> FALSE, seed |-> DefaultSeed,
                 epochs |-> MaxBudget]
    /\ EnvInit
    /\ data_test_csr \in TestMatrices
    /\ test_batch_size \in 1 .. Min(MaxTestBatch, Len(data_test_csr))
    /\ total_tst_words = TotalWords(data_test_csr)
    /\ v_pc = "idle"
    /\ cursor = 0
    /\ total_rec_loss = 0
    /\ summed = {}
    /\ perplexity_out = Unbound

NextEvaluate ==
    \/ EvaluateCall /\ UNCHANGED othersEval
    \/ EvaluateBatch /\ UNCHANGED othersEval
    \/ EvaluateReturn /\ UNCHANGED othersEval

SpecEvaluate == InitEvaluate /\ [][NextEvaluate]_vars

\* An instance of any of the four classes, called with any batch.
InitLatent ==
    DistIdle /\ EncIdle /\ ProcNone /\ EnvInit /\ TrialIdle /\ EvalIdle /\ LatConstructed

NextLatent ==
    \/ \E data \in Batches : GaussianForward(data) /\ UNCHANGED othersLat
    \/ \E data \in Batches : UnitVarForward(data) /\ UNCHANGED othersLat
    \/ \E data \in Batches : LogisticGaussianForward(data) /\ UNCHANGED othersLat
    \/ \E data \in Batches : HyperSphericalMeanForward(data) /\ UNCHANGED othersLat

SpecLatent == InitLatent /\ [][NextLatent]_vars

(***************************************************************************)
(* Claims                                                                  *)
(***************************************************************************)

C2_InitializedLifecycle ==
    /\ [][d_pc = "pregenerate" /\ d_pc' = "constructed" => ~been_initialized']_vars
    /\ [][PostInit => been_initialized']_vars
    /\ [][been_initialized => been_initialized']_vars
    /\ [](fwd.status # "none" =>
            /\ (~fwd.initialized => fwd.status = "precondition_error"
                                    /\ fwd.weights = <<>> /\ fwd.kld = <<>>)
            /\ (fwd.initialized => fwd.status = "ok"))

C2_Witness ==
    /\ been_initialized
    /\ fwd.status = "precondition_error"

\* C3: for every matrix with n >= 1 rows encode_csr returns exactly n
\* encodings, the i-th being the encoding of row i.
C3_EncodesEveryRow ==
    e_pc = "done" =>
        /\ Len(encodings) = Len(csr)
        /\ \A i \in 1 .. Len(csr) : encodings[i] = EncodeData(csr[i], use_probs)

\* C4: a trial started with a malformed configuration (a required key
\* missing, or budget <= 0) ends in an error raised before any computation:
\* no model is constructed, no minibatch is processed, no evaluation is run.
Malformed == ~(RequiredKeys(emb_size) \subseteq DOMAIN ConfigAt(t_ref)) \/ budget <= 0
C4_MalformedFailsBeforeComputation ==
    (t_pc # "idle" /\ Malformed) =>
        /\ t_pc = "raised"
        /\ ~model.constructed
        /\ epoch = 0
        /\ n_evals = 0

\* C5: a trial that met a numerical error (NaN/Inf loss) is aborted (the
\* epoch of the error is the last one it ran), and the result compute returns
\* carries the worst-case sentinel objective (coherence -1).
WorstCaseObjective == 2 * One
C5_NumericalErrorGivesSentinel ==
    (t_pc = "returned" /\ nan_seen) =>
        /\ epoch_loss.nan
        /\ res.loss = WorstCaseObjective

\* C6: in a trial whose configuration sets target sparsity t > 0, the
\* per-epoch update with observed ratio r leaves the L1 coefficient unchanged
\* when r = t, strictly increases it when r < t and strictly decreases it
\* when r > t.
C6_SparsityUpdateDirection ==
    [][(t_pc = "epochs" /\ epoch' = epoch + 1 /\ hp.target_sparsity > 0) =>
          LET r == ratio_small_weights'
              t == hp.target_sparsity
          IN /\ (r = t => l1_coef' = l1_coef)
             /\ (r < t => L1Less(l1_coef, l1_coef'))
             /\ (r > t => L1Less(l1_coef', l1_coef))]_vars

\* C7: the objective a trial reports is exactly 1 - coherence, the coherence
\* being the one computed at Finalize; perplexity and training loss are
\* carried in info only.
C7_ObjectiveIsOneMinusCoherence ==
    t_pc = "returned" =>
        /\ res.loss = One - npmi
        /\ res.info.test_perplexity = perplexity
        /\ res.info.train_loss = epoch_loss

C7_Witness == t_pc = "returned" /\ npmi = 400 /\ perplexity = Num(3400) /\ epoch = 2

\* C8: a configuration is never mutated after it is created: whatever calls
\* of compute, retrain_best_config and write_model were made, the sampled
\* configurations hold the keys and values they were created with.
C8_ConfigNeverMutated == mode = "model_select" => id2config = SampledConfigs

\* C9: when model selection completes and a model directory is set, exactly
\* one retrain-and-persist is run, on the incumbent and with the largest
\* budget awarded to it, started after the search finished and results.pkl
\* was written; with no model directory no retrain is run.
LargestBudget(id) ==
    CHOOSE b \in {r.budget : r \in runs} :
        /\ \E r \in runs : r.id = id /\ r.budget = b
        /\ \A r \in runs : r.id = id => r.budget <= b
C9_OneRetrainOfIncumbent ==
    mode = "model_select" =>
        /\ Len(retrains) <= 1
        /\ Len(retrains) = 1 =>
              /\ c_args.model_dir
              /\ main_pc \in {"retraining", "finished"}
              /\ results_written
              /\ retrains[1].ref = incumbent
              /\ retrains[1].budget = LargestBudget(incumbent)
        /\ main_pc = "finished" =>
              /\ Len(retrains) = 1 <=> c_args.model_dir
              /\ c_args.model_dir => specs_file # {} /\ params_file.epochs = IntOf(retrains[1].budget)

C9_Witness ==
    /\ mode = "model_select"
    /\ main_pc = "finished"
    /\ Len(retrains) = 1
    /\ Cardinality({r \in runs : r.id = incumbent}) = 2

\* C10: write_model records training_epochs equal to the number of epochs
\* the persisted model was trained for, and a run started from that record
\* trains for exactly that number of epochs with the same hyperparameters.
C10_RecordRoundTrip ==
    /\ specs_file # {} =>
          JsonLoads(specs_file)["training_epochs"] = params_file.epochs
    /\ (mode = "config_instance" /\ t_pc = "returned") =>
          /\ model.epochs_trained = origin.epochs
          /\ model.epochs_trained = loaded_config["training_epochs"]
          /\ hp = origin.hp

C10_Witness ==
    /\ mode = "config_instance"
    /\ t_pc = "returned"
    /\ main_pc = "retraining"
    /\ origin.epochs = max_budget

\* C11: the KL term a successful forward call returns is, for every example of
\* the batch, the value _vmf_kld gives for the instance's kappa and n_latent:
\* any two instances built with the same kappa and n_latent return the same
\* KL, whatever the pool holds, whatever was drawn and however many forward
\* calls came before.
C11_KlDependsOnlyOnKappaAndDim ==
    fwd.status = "ok" =>
        \A i \in DOMAIN fwd.kld : fwd.kld[i] = VmfKld(kappa, n_latent)

\* A forward call over two examples on an instance built with kappa = 10 and
\* n_latent = 5 whose pool holds two different weights.
C11_Witness ==
    /\ fwd.status = "ok"
    /\ Len(fwd.kld) = 2
    /\ kappa = 10
    /\ n_latent = 5
    /\ \E i, j \in Slots : vmf_samples[i] # vmf_samples[j]

\* C15: pool generation terminates on every run, including runs in which the
\* proposals of some slot are rejected in every round (the loop being left
\* either with a full pool or, at a cap on the number of rounds, with an
\* internal error).
C15_GenerationTerminates == (d_pc = "pregenerate") ~> (d_pc # "pregenerate")

C19_UnresolvedShrinksAndLoopExits ==
    /\ [][\A i \in Slots : (d_pc = "pregenerate" /\ mask[i] = 0) => mask'[i] = 0]_vars
    /\ [][d_pc = "pregenerate" =>
            ((d_pc' = "constructed") <=> (\A i \in Slots : mask[i] = 0))]_vars
    /\ ((\A i \in Slots : <>(d_pc = "pregenerate" /\ mask[i] = 0))
            => <>(d_pc = "constructed" /\ \A i \in Slots : mask[i] = 0))

\* Generation after a round that resolved one slot and left another unresolved.
C19_Witness ==
    /\ d_pc = "pregenerate"
    /\ \E i, j \in Slots : mask[i] = 0 /\ mask[j] = 1

\* C20: the pool is generated once, at construction: once the constructor has
\* returned, w_samples is never written again (so its size never changes) and
\* generation is never re-entered; every weight a successful forward call
\* uses is the pool entry at an index in 1 .. NumSamples.
C20_PoolGeneratedOnceAndReadOnly ==
    /\ [][d_pc = "constructed" => (w_samples' = w_samples /\ d_pc' = "constructed")]_vars
    /\ [](fwd.status = "ok" =>
            \A i \in DOMAIN fwd.weights :
                /\ fwd.index[i] \in Slots
                /\ fwd.weights[i] = w_samples[fwd.index[i]])

\* A forward call over two examples that read two different pool entries.
C20_Witness ==
    /\ fwd.status = "ok"
    /\ Len(fwd.weights) = 2
    /\ fwd.index[1] # fwd.index[2]
    /\ fwd.weights[1] # fwd.weights[2]

\* C12: two runs of one trial with the same seed, the same configuration and
\* the same budget give the same final objective, also when the same worker
\* makes them one after the other in one process: a trial that returns in a
\* model-selection process reports the objective of every recorded run of
\* the same configuration with the same budget.
C12_SameTrialSameObjective ==
    (mode = "model_select" /\ t_pc = "returned") =>
        \A r \in runs : (r.id = t_ref /\ r.budget = budget) => r.loss = res.loss

\* C13: nothing a trial writes is overwritten by another trial: a step of one
\* call of _train_model leaves every trace line written by another call in
\* place.
C13_NoStateCrossesTrials ==
    [][\A k \in 1 .. Len(trace) :
          trace[k].by # CallTag(t_caller', t_ref', budget') =>
              (k <= Len(trace') /\ trace'[k] = trace[k])]_vars

\* C14: every trial the search submits has a budget of at most the maximum
\* number of training epochs the user specified, which the worker keeps as
\* max_budget.
C14_SearchBudgetWithinUserMaximum ==
    (mode = "model_select" /\ t_caller = "compute" /\ t_pc # "idle") =>
        budget <= ToBudget(WorkerMaxBudget)

\* C16: with a total held-out word count of 0, every call of evaluate (at a
\* checkpoint and at Finalize) returns a perplexity that is defined and not
\* NaN, and none divides by zero.
C16_ZeroWordCountEvaluates ==
    (total_tst_words = 0 /\ n_evals > 0) =>
        /\ error # "ZeroDivisionError"
        /\ perplexity.bound
        /\ ~perplexity.nan

C21_EveryCountedDocumentSummed ==
    v_pc = "done" =>
        /\ summed = DOMAIN data_test_csr
        /\ total_rec_loss = BatchRecLoss(data_test_csr, 1, Len(data_test_csr))

(***************************************************************************)
(* Batch normalization in the latent distributions                         *)
(***************************************************************************)

\* C22: in every distribution variant the forward pass batch-normalizes the
\* projected mean (and the projected log-variance where there is one) before
\* both uses: the mean (log-variance) the sample is drawn from and the one
\* the KL term is computed from are the same batch-normalized value, never
\* the raw projection.
C22_BatchNormBeforeBothUses ==
    lat_out.status = "ok" =>
        LET mu_bn == BatchNorm(Linear(latent.mu_encoder, lat_out.data), MuEps)
            lv_bn == BatchNorm(Linear(latent.lv_encoder, lat_out.data), LvEps)
        IN /\ lat_out.sample_from.mu = mu_bn
           /\ lat_out.kl_from.mu \in {mu_bn, <<>>}
           /\ latent.kind \in WithLogVar =>
                 /\ lat_out.sample_from.lv = lv_bn
                 /\ lat_out.kl_from.lv = lv_bn

====
